---- MODULE Spec2Model ----
(***************************************************************************)
(* A model of fico.go: the ICNS run-length decoder (icnsBRLDecode), the    *)
(* legacy bitmap decoder (CreateBmp32bppFromIconResData), the resource     *)
(* tree walker (parseDir), the two container builders (ICNS2ICO, PE2ICO)   *)
(* and the assembler (writeICO).                                           *)
(*                                                                         *)
(* Go slices are 0-based; sequences here are 1-based.  At and Slice do the *)
(* translation, so every index written below is the Go index.  An index   *)
(* or slice expression that Go's runtime rejects ends the function in the  *)
(* state pc = "panic".                                                     *)
(***************************************************************************)
EXTENDS Integers, Sequences, FiniteSets, TLC

VARIABLES brl, bmp, pe, ico

vars == <<brl, bmp, pe, ico>>

\* the state of a function that is not running
Idle == [pc |-> "idle"]

(***************************************************************************)
(* Go slice primitives.                                                    *)
(***************************************************************************)
\* s[k]
At(s, k) == s[k + 1]

\* s[lo:hi]
Slice(s, lo, hi) == SubSeq(s, lo + 1, hi)

\* the runtime check of s[k]
IndexOK(s, k) == 0 <= k /\ k < Len(s)

\* the runtime check of s[lo:hi] on a slice whose capacity is its length
SliceOK(s, lo, hi) == 0 <= lo /\ lo <= hi /\ hi <= Len(s)

\* make([]byte, cnt) filled with tb
Repeat(tb, cnt) == [j \in 1..cnt |-> tb]

(***************************************************************************)
(* icnsBRLDecode                                                           *)
(***************************************************************************)
\* longest compressed input tried
MaxBRLLen == 5

\* input bytes tried: literal controls 0x00, 0x01, 0x02, 0x7F and repeat
\* controls 0x80, 0x83, 0xFF
BRLBytes == {0, 1, 2, 127, 128, 131, 255}

BRLInputs == UNION {[1..n -> BRLBytes] : n \in 0..MaxBRLLen}

\* a mutation of LiteralRunTruncated: the bound is off by one
LiteralRunTruncatedOffByOne(i, cnt, n) == i + cnt > n

\* line 285: the literal run would read past the end of the input
LiteralRunTruncated(i, cnt, n) == i + cnt >= n

\* line 292: the repeat run has no byte to repeat
RepeatRunTruncated(i, n) == i + 1 >= n

InitBRL ==
  /\ \E d \in BRLInputs :
       brl = [data |-> d, i |-> 0, ret |-> <<>>, pc |-> "loop", iters |-> 0]
  /\ bmp = Idle /\ pe = Idle /\ ico = Idle

\* line 281: the loop condition fails
BRLExit ==
  /\ brl.pc = "loop"
  /\ ~(brl.i < Len(brl.data))
  /\ brl' = [brl EXCEPT !.pc = "done"]
  /\ UNCHANGED <<bmp, pe, ico>>

\* lines 283-289: a control byte below 0x80
BRLLiteral ==
  /\ brl.pc = "loop"
  /\ brl.i < Len(brl.data)
  /\ At(brl.data, brl.i) < 128
  /\ LET cnt == At(brl.data, brl.i) + 1 IN
       IF LiteralRunTruncated(brl.i, cnt, Len(brl.data))
       THEN brl' = [brl EXCEPT !.pc = "done", !.iters = @ + 1]
       ELSE IF ~SliceOK(brl.data, brl.i + 1, brl.i + 1 + cnt)
       THEN brl' = [brl EXCEPT !.pc = "panic", !.iters = @ + 1]
       ELSE brl' = [brl EXCEPT
                      !.ret = @ \o Slice(brl.data, brl.i + 1, brl.i + 1 + cnt),
                      !.i = @ + cnt + 1,
                      !.iters = @ + 1]
  /\ UNCHANGED <<bmp, pe, ico>>

\* lines 290-302: a control byte of 0x80 or more
BRLRepeat ==
  /\ brl.pc = "loop"
  /\ brl.i < Len(brl.data)
  /\ At(brl.data, brl.i) >= 128
  /\ LET cnt == At(brl.data, brl.i) - 128 + 3 IN
       IF RepeatRunTruncated(brl.i, Len(brl.data))
       THEN brl' = [brl EXCEPT !.pc = "done", !.iters = @ + 1]
       ELSE IF ~IndexOK(brl.data, brl.i + 1)
       THEN brl' = [brl EXCEPT !.pc = "panic", !.iters = @ + 1]
       ELSE brl' = [brl EXCEPT
                      !.ret = @ \o Repeat(At(brl.data, brl.i + 1), cnt),
                      !.i = @ + 2,
                      !.iters = @ + 1]
  /\ UNCHANGED <<bmp, pe, ico>>

NextBRL == BRLExit \/ BRLLiteral \/ BRLRepeat

SpecBRL == InitBRL /\ [][NextBRL]_vars

(***************************************************************************)
(* The decoding written down from the format's description: the output of  *)
(* the runs that fit, in order, up to the first run that does not fit.     *)
(* k is the (1-based) place of the next control byte.                      *)
(***************************************************************************)
RECURSIVE RefBRLFrom(_, _)
RefBRLFrom(d, k) ==
  IF k > Len(d) THEN <<>>
  ELSE IF d[k] < 128
       THEN IF k + d[k] + 1 > Len(d) THEN <<>>
            ELSE [j \in 1..(d[k] + 1) |-> d[k + j]] \o RefBRLFrom(d, k + d[k] + 2)
       ELSE IF k + 1 > Len(d) THEN <<>>
            ELSE [j \in 1..(d[k] - 128 + 3) |-> d[k + 1]] \o RefBRLFrom(d, k + 2)

RefBRL(d) == RefBRLFrom(d, 1)

\* C4: on every input icnsBRLDecode ends after at most len(data) iterations,
\* no index or slice expression of it is out of range, and what it returns is
\* the reference decoding: literal runs copied, repeat runs expanded, stopping
\* at the first run that would read past the end of the input.
C4_BRLDecodeIsReference ==
  /\ brl.pc # "panic"
  /\ brl.i <= Len(brl.data)
  /\ brl.iters <= Len(brl.data)
  /\ brl.pc = "done" => brl.ret = RefBRL(brl.data)

\* C4 witness: a literal run and a repeat run were decoded and a third run was
\* cut short by the end of the input.
C4_Witness ==
  /\ brl.pc = "done"
  /\ brl.iters = 3
  /\ brl.i < Len(brl.data)
  /\ brl.data[1] < 128
  /\ brl.data[brl.data[1] + 3] >= 128
  /\ Len(brl.ret) = brl.data[1] + 1 + brl.data[brl.data[1] + 3] - 128 + 3

(***************************************************************************)
(* CreateBmp32bppFromIconResData                                           *)
(***************************************************************************)
\* line 703
ignoreSize == 40

\* largest width and height tried
MaxDim == 2

\* largest declared colour count tried
MaxColors == 2

\* longest input after the 40-byte header tried
MaxBody == 16

\* the depths of the switch, and one depth it does not know
BmpDepths == {32, 24, 16, 8, 4, 1, 2}

\* how the bytes after the header are filled: all different, small palette
\* indices, one index per nibble, all bits set
BmpPatterns == {"ramp", "idx", "nib", "ones"}

PatByte(pat, k) ==
  CASE pat = "ramp" -> (k + 1) % 256
    [] pat = "idx"  -> k % 2
    [] pat = "nib"  -> IF k % 2 = 0 THEN 1 ELSE 16
    [] OTHER        -> 255

\* an input of n bytes: a zero header, then the pattern
BmpData(pat, n) ==
  [k \in 1..n |-> IF k <= ignoreSize THEN 0 ELSE PatByte(pat, k - 1 - ignoreSize)]

\* the input lengths tried: no header, a cut header, a header and 0..MaxBody bytes
BmpLengths == {0, ignoreSize - 1} \cup {ignoreSize + n : n \in 0..MaxBody}

\* color.RGBA
RGBA(r, g, b, a) == [R |-> r, G |-> g, B |-> b, A |-> a]

\* line 704
ColorDataSize(depth, w, h) == ((((((w * depth) + 7) \div 8) + 3) \div 4) * 4) * h

\* image.NewRGBA(image.Rect(0, 0, w, h))
NewRGBA(w, h) == [p \in (0..(w - 1)) \X (0..(h - 1)) |-> RGBA(0, 0, 0, 0)]

\* x >> n and the n-th bit of x
Shr(x, n) == x \div (2 ^ n)
Bit(x, n) == Shr(x, n) % 2

\* lines 681-690
MaskRowSize(w) == ((w + 31) \div 32) * 4
MaskByteIndex(x, y, w, h) == (MaskRowSize(w) * ((h - 1) - y)) + (x \div 8)
\* The uint32 result, 0xFFFFFFFF or 0, is kept as its four bytes (low byte
\* first): TLC's integers are 32-bit signed.
GetMaskBit(data, x, y, w, h) ==
  IF Bit(At(data, MaskByteIndex(x, y, w, h)), 7 - (x % 8)) = 0
  THEN <<255, 255, 255, 255>> ELSE <<0, 0, 0, 0>>

\* (mask >> sh) & 0xFF, and uint8(mask >> sh)
MaskByte(mask, sh) == mask[(sh \div 8) + 1]

\* lines 670-679; value is a uint16, the result's channels are uint8.
\* b is (value << 19) & 0xF80000, so (b * m) >> 8 is (value & 0x1F) * m << 11.
Convert16BitToARGB(value, mask) ==
  LET r == (Shr(value, 7) % 256) - (Shr(value, 7) % 8)
      g == ((value * 64) % 65536) - ((value * 64) % 1024)
  IN  RGBA(Shr(r * MaskByte(mask, 16), 8) % 256,
           Shr(g * MaskByte(mask, 8), 8) % 256,
           ((value % 32) * MaskByte(mask, 0) * 2048) % 256,
           255)

\* src := data[ignoreSize:]
Src == Slice(bmp.data, ignoreSize, Len(bmp.data))

\* lines 725, 745: bitmask := data[ignoreSize+colorDataSize:]
MaskStart == ignoreSize + ColorDataSize(bmp.depth, bmp.w, bmp.h)

\* line 819: bitmaskXOR := data[ignoreSize+(colors*4):]
XorStart == ignoreSize + (bmp.colors * 4)

\* line 820: bitmaskAND := data[ignoreSize+(colors*4)+colorDataSize:]
AndStart == ignoreSize + (bmp.colors * 4) + ColorDataSize(bmp.depth, bmp.w, bmp.h)

DataFrom(from) == Slice(bmp.data, from, Len(bmp.data))

InitBmp ==
  /\ \E pat \in BmpPatterns, n \in BmpLengths, depth \in BmpDepths,
        w \in 0..MaxDim, h \in 0..MaxDim, colors \in 0..MaxColors :
       bmp = [data |-> BmpData(pat, n), depth |-> depth, w |-> w, h |-> h,
              colors |-> colors, img |-> NewRGBA(w, h), pal |-> <<>>,
              yy |-> h - 1, xx |-> 0, pixel |-> 0, pc |-> "start"]
  /\ brl = Idle /\ pe = Idle /\ ico = Idle

\* the for loops over yy and xx are entered: the first pixel, or no pixel at all
EnterPixels == IF bmp.h - 1 >= 0 /\ bmp.w > 0 THEN "pixels" ELSE "done"

\* lines 706-710, 723-726, 743-746, 756-758, 784-786, 817-821: the switch and
\* the slices taken before the loops
BmpDispatch ==
  /\ bmp.pc = "start"
  /\ bmp' = [bmp EXCEPT !.pc =
       IF bmp.depth \notin {32, 24, 16, 8, 4, 1} THEN "done"
       ELSE IF ~SliceOK(bmp.data, ignoreSize, Len(bmp.data)) THEN "panic"
       ELSE IF bmp.depth \in {24, 16} /\ ~SliceOK(bmp.data, MaskStart, Len(bmp.data))
            THEN "panic"
       ELSE IF bmp.depth = 1 /\ (\/ ~SliceOK(bmp.data, XorStart, Len(bmp.data))
                                 \/ ~SliceOK(bmp.data, AndStart, Len(bmp.data)))
            THEN "panic"
       ELSE IF bmp.depth \in {8, 4, 1} THEN "pal"
       ELSE EnterPixels]
  /\ UNCHANGED <<brl, pe, ico>>

\* the number of colour table entries read: colors, or 4 for depth 1
PalSize == IF bmp.depth = 1 THEN 4 ELSE bmp.colors

\* lines 759-768, 787-796, 822-831: one turn of the colour table loop
BmpPalette ==
  /\ bmp.pc = "pal"
  /\ LET i == Len(bmp.pal) IN
       IF ~(i < PalSize) THEN bmp' = [bmp EXCEPT !.pc = EnterPixels]
       ELSE IF (i * 4) + 3 >= Len(Src) THEN bmp' = [bmp EXCEPT !.pc = "done"]
       ELSE bmp' = [bmp EXCEPT !.pal = Append(@,
                      RGBA(At(Src, (i * 4) + 2), At(Src, (i * 4) + 1),
                           At(Src, (i * 4) + 0), At(Src, (i * 4) + 3)))]
  /\ UNCHANGED <<brl, pe, ico>>

\* bmp.Set(xx, yy, c), pixel += inc, and the step of the two for loops
BmpSet(c, inc) ==
  LET rowEnd == bmp.xx + 1 >= bmp.w
      ny == IF rowEnd THEN bmp.yy - 1 ELSE bmp.yy
  IN  [bmp EXCEPT !.img[<<bmp.xx, bmp.yy>>] = c,
                  !.pixel = @ + inc,
                  !.xx = IF rowEnd THEN 0 ELSE bmp.xx + 1,
                  !.yy = ny,
                  !.pc = IF ny >= 0 THEN "pixels" ELSE "done"]

BmpReturn == [bmp EXCEPT !.pc = "done"]
BmpPanic == [bmp EXCEPT !.pc = "panic"]

\* lines 711-722
BmpPixel32 ==
  /\ bmp.pc = "pixels" /\ bmp.depth = 32
  /\ LET o == (bmp.yy * bmp.w * 4) + (bmp.xx * 4) IN
       bmp' = IF o + 3 >= Len(Src) THEN BmpReturn
              ELSE BmpSet(RGBA(At(Src, o + 2), At(Src, o + 1), At(Src, o), At(Src, o + 3)), 0)
  /\ UNCHANGED <<brl, pe, ico>>

\* r & uint8(mask >> 16) and its like: the mask byte is 0xFF or 0
Gate(v, mask, sh) == IF MaskByte(mask, sh) = 255 THEN v ELSE 0

\* lines 727-742
BmpPixel24 ==
  /\ bmp.pc = "pixels" /\ bmp.depth = 24
  /\ LET bitmask == DataFrom(MaskStart) IN
       bmp' = IF bmp.pixel >= Len(Src) \div 3 THEN BmpReturn
              ELSE IF ~IndexOK(bitmask, MaskByteIndex(bmp.xx, bmp.yy, bmp.w, bmp.h))
              THEN BmpPanic
              ELSE LET mask == GetMaskBit(bitmask, bmp.xx, bmp.yy, bmp.w, bmp.h) IN
                   BmpSet(RGBA(Gate(At(Src, bmp.pixel * 3), mask, 16),
                               Gate(At(Src, (bmp.pixel * 3) + 1), mask, 8),
                               Gate(At(Src, (bmp.pixel * 3) + 2), mask, 0),
                               255), 1)
  /\ UNCHANGED <<brl, pe, ico>>

\* binary.LittleEndian.Uint16(b)
Uint16(b) == At(b, 0) + (256 * At(b, 1))

\* lines 747-755
BmpPixel16 ==
  /\ bmp.pc = "pixels" /\ bmp.depth = 16
  /\ LET bitmask == DataFrom(MaskStart) IN
       bmp' = IF bmp.pixel >= Len(Src) \div 2 THEN BmpReturn
              ELSE IF ~IndexOK(bitmask, MaskByteIndex(bmp.xx, bmp.yy, bmp.w, bmp.h))
              THEN BmpPanic
              ELSE BmpSet(Convert16BitToARGB(
                            Uint16(Slice(Src, bmp.pixel * 2, Len(Src))),
                            GetMaskBit(bitmask, bmp.xx, bmp.yy, bmp.w, bmp.h)), 1)
  /\ UNCHANGED <<brl, pe, ico>>

\* lines 776-780, 809-813: the table entry, or the zero colour
PalColor(colorIndex) ==
  IF colorIndex < Len(bmp.pal) THEN At(bmp.pal, colorIndex) ELSE RGBA(0, 0, 0, 0)

\* line 775: where the 8bpp index of the pixel-th pixel is read in src
Index8Pos(pixel) == pixel

\* lines 770-783
BmpPixel8 ==
  /\ bmp.pc = "pixels" /\ bmp.depth = 8
  /\ bmp' = IF Index8Pos(bmp.pixel) >= Len(Src) THEN BmpReturn
            ELSE BmpSet(PalColor(At(Src, Index8Pos(bmp.pixel))), 1)
  /\ UNCHANGED <<brl, pe, ico>>

\* line 803: where the 4bpp index byte of pixel (xx, yy) is read in src
Index4Pos(xx, yy, w) == ((yy * w) \div 2) + (xx \div 2)

\* lines 798-816
BmpPixel4 ==
  /\ bmp.pc = "pixels" /\ bmp.depth = 4
  /\ LET o == Index4Pos(bmp.xx, bmp.yy, bmp.w) IN
       bmp' = IF o >= Len(Src) THEN BmpReturn
              ELSE BmpSet(PalColor(IF bmp.xx % 2 = 0 THEN Shr(At(Src, o), 4)
                                   ELSE At(Src, o) % 16), 1)
  /\ UNCHANGED <<brl, pe, ico>>

\* lines 832-844
BmpPixel1 ==
  /\ bmp.pc = "pixels" /\ bmp.depth = 1
  /\ LET bitmaskXOR == DataFrom(XorStart)
         bitmaskAND == DataFrom(AndStart)
         xorIndex == ((bmp.yy * bmp.w) + bmp.xx) \div 8
         andIndex == ((bmp.yy * bmp.w) + bmp.xx) \div 8
     IN  bmp' = IF xorIndex >= Len(bitmaskXOR) \/ andIndex >= Len(bitmaskAND)
                THEN BmpReturn
                ELSE BmpSet(At(bmp.pal,
                              (2 * Bit(At(bitmaskXOR, xorIndex), 7 - (bmp.xx % 8)))
                              + Bit(At(bitmaskAND, andIndex), 7 - (bmp.xx % 8))), 0)
  /\ UNCHANGED <<brl, pe, ico>>

NextBmp ==
  \/ BmpDispatch \/ BmpPalette
  \/ BmpPixel32 \/ BmpPixel24 \/ BmpPixel16 \/ BmpPixel8 \/ BmpPixel4 \/ BmpPixel1

SpecBmp == InitBmp /\ [][NextBmp]_vars

\* the width x height rectangle of pixel positions, top-left origin
Pixels(w, h) == (0..(w - 1)) \X (0..(h - 1))

\* C8: for every depth, size, colour count and input length the decoder ends
\* with a width x height buffer and no index or slice expression out of range
\* (a cut input only stops the emission early), and a depth the switch does
\* not know leaves the buffer all zero.
C8_DecoderNeverReadsOutOfRange ==
  /\ bmp.pc # "panic"
  /\ bmp.pc = "done" => DOMAIN bmp.img = Pixels(bmp.w, bmp.h)
  /\ (bmp.pc = "done" /\ bmp.depth \notin {32, 24, 16, 8, 4, 1}) =>
       \A p \in Pixels(bmp.w, bmp.h) : bmp.img[p] = RGBA(0, 0, 0, 0)

\* the four bytes B,G,R,A at Go offset o of the input, as a colour
BGRAAt(data, o) == RGBA(At(data, o + 2), At(data, o + 1), At(data, o), At(data, o + 3))

\* C9: for depth 32 and an input holding all width*height pixels, output pixel
\* (x, y) is the four bytes B,G,R,A at offset 40 + ((h-1-y)*w + x)*4: the first
\* stored row is the bottom output row.
C9_Depth32RowsBottomToTop ==
  (/\ bmp.pc = "done" /\ bmp.depth = 32
   /\ Len(bmp.data) >= ignoreSize + (bmp.w * bmp.h * 4)) =>
    \A p \in Pixels(bmp.w, bmp.h) :
      bmp.img[p] = BGRAAt(bmp.data, ignoreSize + ((((bmp.h - 1 - p[2]) * bmp.w) + p[1]) * 4))

\* the palette index the format stores for pixel (x, y): the indices follow the
\* colour table, rows bottom-to-top, one per byte (8bpp) or two per byte with
\* the high nibble first and each row starting on a byte (4bpp)
StoredIndex(data, depth, w, h, colors, x, y) ==
  LET base == ignoreSize + (4 * colors)
      row == h - 1 - y
  IN  IF depth = 8 THEN At(data, base + (row * w) + x)
      ELSE LET byte == At(data, base + (row * ((w + 1) \div 2)) + (x \div 2))
           IN  IF x % 2 = 0 THEN byte \div 16 ELSE byte % 16

IndexBytes(depth, w, h) == IF depth = 8 THEN w * h ELSE ((w + 1) \div 2) * h

\* C10: for depths 8 and 4 and an input holding the colour table and all the
\* indices, output pixel (x, y) is the colour table entry (read right after the
\* header) at the index stored for it after the colour table, and the zero
\* pixel when that index is not below colors.
C10_PaletteIndicesFollowColourTable ==
  (/\ bmp.pc = "done" /\ bmp.depth \in {8, 4}
   /\ Len(bmp.data) >= ignoreSize + (4 * bmp.colors) + IndexBytes(bmp.depth, bmp.w, bmp.h)) =>
    \A p \in Pixels(bmp.w, bmp.h) :
      LET idx == StoredIndex(bmp.data, bmp.depth, bmp.w, bmp.h, bmp.colors, p[1], p[2])
      IN  bmp.img[p] = IF idx < bmp.colors
                       THEN BGRAAt(bmp.data, ignoreSize + (4 * idx))
                       ELSE RGBA(0, 0, 0, 0)

(***************************************************************************)
(* Strings.  A Go string is the sequence of its character codes, so that   *)
(* strconv.Itoa, strings.HasPrefix, strings.Split and strconv.ParseUint    *)
(* are computed as the library computes them.                              *)
(***************************************************************************)
\* strconv.Itoa(n), n >= 0
RECURSIVE Itoa(_)
Itoa(n) == IF n < 10 THEN <<48 + n>> ELSE Itoa(n \div 10) \o <<48 + (n % 10)>>

\* strings.HasPrefix(s, p)
HasPrefix(s, p) == Len(s) >= Len(p) /\ SubSeq(s, 1, Len(p)) = p

\* lines 442-443: "3/" and "14/"
RT_ICON == <<51, 47>>
RT_GROUP_ICON == <<49, 52, 47>>

\* strings.Split(s, "/")
RECURSIVE Split(_)
Split(s) ==
  IF \A k \in 1..Len(s) : s[k] # 47 THEN <<s>>
  ELSE LET k == CHOOSE k \in 1..Len(s) : s[k] = 47 /\ \A j \in 1..(k - 1) : s[j] # 47
       IN  <<SubSeq(s, 1, k - 1)>> \o Split(SubSeq(s, k + 1, Len(s)))

RECURSIVE DigitsValue(_)
DigitsValue(s) ==
  IF s = <<>> THEN 0
  ELSE (DigitsValue(SubSeq(s, 1, Len(s) - 1)) * 10) + (s[Len(s)] - 48)

\* id, _ := strconv.ParseUint(s, 10, 64): 0 when s is not a decimal number
ParseUint(s) ==
  IF Len(s) > 0 /\ \A k \in 1..Len(s) : 48 <= s[k] /\ s[k] <= 57
  THEN DigitsValue(s) ELSE 0

(***************************************************************************)
(* Image payloads.  The PNG codec and image.Decode are libraries: a        *)
(* payload that is not plane data is kept as what they report of it.       *)
(*   kind "png"  : starts with the PNG signature; ok: its header decodes   *)
(*   kind "dib"  : a BITMAPINFOHEADER and bitmap data                      *)
(*   kind "raw"  : bytes (compressed planes, a mask)                       *)
(* len is the payload's length in bytes; id names the image it holds.      *)
(***************************************************************************)
PngPayload(id, ok, w, h, len) ==
  [kind |-> "png", ok |-> ok, w |-> w, h |-> h, bits |-> 32, len |-> len,
   bytes |-> <<>>, id |-> id]

DibPayload(id, w, h, bits, len) ==
  [kind |-> "dib", ok |-> FALSE, w |-> w, h |-> h, bits |-> bits, len |-> len,
   bytes |-> <<>>, id |-> id]

RawPayload(id, bytes) ==
  [kind |-> "raw", ok |-> FALSE, w |-> 0, h |-> 0, bits |-> 0, len |-> Len(bytes),
   bytes |-> bytes, id |-> id]

\* lines 307-309
isPNG(d) == d.kind = "png"

\* image.DecodeConfig / png.DecodeConfig: the size, or the zero Config on error
DecodeConfig(d) == IF d.kind = "png" /\ d.ok THEN <<d.w, d.h>> ELSE <<0, 0>>

\* png.Encode into a fresh buffer: nothing is written for an empty image
EncodePNG(id, w, h, len) ==
  IF w <= 0 \/ h <= 0
  THEN [kind |-> "raw", ok |-> FALSE, w |-> 0, h |-> 0, bits |-> 0, len |-> 0,
        bytes |-> <<>>, id |-> id]
  ELSE PngPayload(id, TRUE, w, h, len)

(***************************************************************************)
(* Config, ICONDIR, ICONDIRENTRY                                           *)
(***************************************************************************)
\* the target sizes tried
Targets == {<<0, 0>>, <<16, 16>>}

\* cfg ...Config: no Config, or one
Configs ==
  {<<>>} \cup
  {<<[Format |-> f, Width |-> t[1], Height |-> t[2], Index |-> x]>> :
     f \in {"ico", "png"}, t \in Targets, x \in {-1, 0, 1}}

\* Index is read by PE2ICO alone
IcnsConfigs == {c \in Configs : IF Len(c) > 0 THEN c[1].Index = 0 ELSE TRUE}

\* binary.Size of ICONDIR and of ICONDIRENTRY (lines 522-551)
SizeofICONDIR == 6
SizeofICONDIRENTRY == 16

\* lines 423-432, 645-646; ID is the image the record was made for (not a
\* field of the struct: 0 for a record never filled in)
Entry(width, height, planes, bitCount, bytesInRes, offset, id) ==
  [Width |-> width % 256, Height |-> height % 256, Planes |-> planes,
   BitCount |-> bitCount, BytesInRes |-> bytesInRes, Offset |-> offset, ID |-> id]

\* an element of make([]ICONDIRENTRY, n)
ZeroEntry == Entry(0, 0, 0, 0, 0, 0, 0)

\* int(math.Sqrt(float64(n)))
ISqrt(n) == CHOOSE r \in 0..n : r * r <= n /\ (r + 1) * (r + 1) > n

\* icnsBRLDecode as a function of its input (lines 280-305)
RECURSIVE BRLRun(_, _, _)
BRLRun(data, i, ret) ==
  IF ~(i < Len(data)) THEN ret
  ELSE IF At(data, i) < 128
       THEN IF LiteralRunTruncated(i, At(data, i) + 1, Len(data)) THEN ret
            ELSE BRLRun(data, i + At(data, i) + 2,
                        ret \o Slice(data, i + 1, i + 2 + At(data, i)))
       ELSE IF RepeatRunTruncated(i, Len(data)) THEN ret
            ELSE BRLRun(data, i + 2, ret \o Repeat(At(data, i + 1), At(data, i) - 128 + 3))

icnsBRLDecode(data) == BRLRun(data, 0, <<>>)

(***************************************************************************)
(* ICNS2ICO, PE2ICO and writeICO                                           *)
(***************************************************************************)
\* most chunks of an icon set tried
MaxChunks == 3

\* most members of an icon group tried
MaxMembers == 2

\* the chunks tried: a table of contents, two masks, PNG images (one of 256
\* pixels, one whose header does not decode), compressed 24-bit RGB planes
\* (a literal run of twelve bytes), planes behind it32's four-byte header (a
\* repeat run of twelve bytes), and compressed ARGB planes
IcnsChunks ==
  { [Type |-> "TOC ", Data |-> RawPayload(0, <<>>)],
    [Type |-> "s8mk", Data |-> RawPayload(0, <<21, 22, 23, 24>>)],
    [Type |-> "l8mk", Data |-> RawPayload(0, <<31, 32, 33, 34>>)],
    [Type |-> "ic07", Data |-> PngPayload(0, TRUE, 128, 128, 60)],
    [Type |-> "ic08", Data |-> PngPayload(0, TRUE, 256, 256, 90)],
    [Type |-> "ic09", Data |-> PngPayload(0, FALSE, 0, 0, 20)],
    [Type |-> "is32", Data |-> RawPayload(0, <<11, 1, 2, 3, 4, 5, 6, 7, 8, 9, 10, 11, 12>>)],
    [Type |-> "it32", Data |-> RawPayload(0, <<0, 0, 0, 0, 137, 7>>)],
    [Type |-> "ic04", Data |-> [RawPayload(0, <<141, 5>>) EXCEPT !.kind = "argb"]] }

\* an icon set: each chunk's payload is named by the chunk's place
IconSets ==
  UNION { { [k \in 1..n |-> [Type |-> c[k].Type, Data |-> [c[k].Data EXCEPT !.id = k]]] :
            c \in [1..n -> IcnsChunks] } : n \in 0..MaxChunks }

\* the sizes png.Encode's output may have
EncodedLens == {41, 57}

\* the icon images a PE file may hold: width, height, bit depth, PNG or bitmap
IconAttrs ==
  { [w |-> 16, h |-> 16, bits |-> 32, png |-> FALSE],
    [w |-> 16, h |-> 16, bits |-> 8, png |-> FALSE],
    [w |-> 16, h |-> 32, bits |-> 32, png |-> FALSE],
    [w |-> 32, h |-> 32, bits |-> 32, png |-> FALSE],
    [w |-> 256, h |-> 256, bits |-> 32, png |-> TRUE] }

\* the IDs of the icon resources present, and those a group may name
IconIDs == {1, 2}
MemberIDs == {1, 2, 3}

IconPayload(id, a) ==
  IF a.png THEN PngPayload(id, TRUE, a.w, a.h, 100 + id)
  ELSE DibPayload(id, a.w, a.h, a.bits, 40 + ((a.w * a.h * a.bits) \div 8) + id)

\* a resource name "<type>/<name>/<language>" as parseDir builds it
ResName(type, id) == Itoa(type) \o <<47>> \o Itoa(id) \o <<47>> \o Itoa(1033)

\* a RESDIR of a group: the fields describe the icon image with that ID
Member(id, a) ==
  [Width |-> a.w % 256, Height |-> a.h % 256, Planes |-> 1, BitCount |-> a.bits,
   BytesInRes |-> IconPayload(id, a).len, ID |-> id]

\* the parsed RT_GROUP_ICON data: its header's count and its records
Group(members) == [Count |-> Len(members), Entries |-> members]

\* what parseDir returned for a file with icons t[1], t[2] and the groups gs
Resources(t, gs) ==
  [k \in 1..2 |-> [Name |-> ResName(3, k), Data |-> IconPayload(k, t[k])]]
  \o [k \in 1..Len(gs) |-> [Name |-> ResName(14, k), Data |-> gs[k]]]

IcoStart(caller, cfg, iconSet, resources) ==
  [caller |-> caller, cfg |-> cfg, iconSet |-> iconSet, resources |-> resources,
   k |-> 0, newSet |-> <<>>, maskMap |-> <<>>, idmap |-> <<>>, grpIcons |-> <<>>,
   gid |-> Group(<<>>), entries |-> <<>>, data |-> <<>>, offset |-> 0, i |-> 0,
   id |-> [Type |-> 0, Count |-> 0],
   j |-> 0, m |-> 0, wdiff |-> 1048575, hdiff |-> 1048575, bm |-> 0,
   depthArg |-> -1, rgba |-> <<>>, out |-> <<>>, pc |-> IF caller = "icns" THEN "filter" ELSE "scan"]

InitICO ==
  /\ \/ \E cfg \in IcnsConfigs, set \in IconSets : ico = IcoStart("icns", cfg, set, <<>>)
     \/ \E cfg \in Configs, t \in [IconIDs -> IconAttrs],
           ids \in UNION {[1..n -> MemberIDs] : n \in 0..MaxMembers},
           ngroups \in 0..2 :
          LET a(id) == IF id \in IconIDs THEN t[id] ELSE t[1]
              g1 == Group([k \in 1..Len(ids) |-> Member(ids[k], a(ids[k]))])
              g2 == Group(<<Member(1, t[1])>>)
          IN  ico = IcoStart("pe", cfg, <<>>,
                             Resources(t, SubSeq(<<g1, g2>>, 1, ngroups)))
  /\ brl = Idle /\ bmp = Idle /\ pe = Idle

\* ---- ICNS2ICO ----

\* line 331: the place a mask chunk is filed under
MaskKeyNext(newSet) == Len(newSet)
MaskKey(newSet) == Len(newSet) - 1

\* lines 326-335: one chunk of the filter loop
IcnsFilter ==
  /\ ico.pc = "filter"
  /\ IF ico.k < Len(ico.iconSet)
     THEN LET icon == At(ico.iconSet, ico.k) IN
            ico' = [ico EXCEPT
              !.k = @ + 1,
              !.maskMap = IF icon.Type \in {"s8mk", "l8mk", "h8mk", "t8mk"}
                          THEN (MaskKey(ico.newSet) :> icon) @@ @ ELSE @,
              !.newSet = IF icon.Type \in {"TOC ", "icnV", "name", "info", "sbtp", "slct",
                                           "FDD92FA8", "s8mk", "l8mk", "h8mk", "t8mk"}
                         THEN @ ELSE Append(@, icon)]
     ELSE ico' = [ico EXCEPT !.pc = "convert", !.i = 0,
                             !.offset = 6 + (Len(ico.newSet) * 16)]
  /\ UNCHANGED <<brl, bmp, pe>>

\* lines 344-346: the chunk's data, past it32's header
Stripped(icon) ==
  IF icon.Type = "it32" /\ icon.Data.len >= 4 /\ icon.Data.kind = "raw"
  THEN RawPayload(icon.Data.id, Slice(icon.Data.bytes, 4, Len(icon.Data.bytes)))
  ELSE icon.Data

\* lines 360-381: the plane bytes after the "ARGB" marker and hasA, for a chunk
\* that is not a PNG; none when the chunk goes to image.Decode
Planes(icon, d, i, maskMap) ==
  IF icon.Type \in {"is32", "il32", "ih32", "it32", "icp4", "icp5"}
  THEN LET bytes == IF i \in DOMAIN maskMap
                    THEN maskMap[i].Data.bytes \o icnsBRLDecode(d.bytes)
                    ELSE icnsBRLDecode(d.bytes)
       IN  [argb |-> Len(bytes) > 0, bytes |-> bytes,
            hasA |-> IF i \in DOMAIN maskMap THEN 1 ELSE 0]
  ELSE IF d.kind = "argb" /\ Len(d.bytes) > 0
       THEN [argb |-> TRUE, bytes |-> icnsBRLDecode(d.bytes), hasA |-> 1]
       ELSE [argb |-> FALSE, bytes |-> <<>>, hasA |-> 1]

\* lines 382-405: the image built from the plane bytes, row by row
PlanePixels(bytes, hasA) ==
  LET pixles == Len(bytes) \div 4
      w == ISqrt(pixles)
  IN  [w |-> w, h |-> w,
       pix |-> [k \in 1..(w * w) |->
                  [R |-> At(bytes, (k - 1) + (hasA * pixles)),
                   G |-> At(bytes, (k - 1) + ((1 + hasA) * pixles)),
                   B |-> At(bytes, (k - 1) + ((2 + hasA) * pixles)),
                   A |-> IF hasA > 0 THEN At(bytes, k - 1) ELSE 255]]]

\* a chunk whose image is not built from planes (a PNG passed on, an image
\* image.Decode read)
NoPixels == [w |-> -1, h |-> -1, pix |-> <<>>]

\* lines 340-435: one chunk of the conversion loop, and line 437 after the last
IcnsConvert ==
  /\ ico.pc = "convert"
  /\ IF ico.i < Len(ico.newSet)
     THEN LET icon == At(ico.newSet, ico.i)
              d == Stripped(icon)
              pl == Planes(icon, d, ico.i, ico.maskMap)
              side == ISqrt(Len(pl.bytes) \div 4)
              add(payload, w, h) ==
                [ico EXCEPT
                   !.data = Append(@, payload),
                   !.rgba = Append(@, IF ~isPNG(d) /\ pl.argb
                                      THEN PlanePixels(pl.bytes, pl.hasA)
                                      ELSE NoPixels),
                   !.entries = Append(@, Entry(w, h, 1, 32, payload.len, ico.offset,
                                               payload.id)),
                   !.offset = @ + payload.len,
                   !.i = @ + 1]
          IN  IF isPNG(d)
              THEN ico' = IF d.ok THEN add(d, d.w, d.h) ELSE [ico EXCEPT !.pc = "error"]
              ELSE IF pl.argb
              THEN \E len \in EncodedLens :
                     ico' = add(EncodePNG(d.id, side, side, len), side, side)
              ELSE IF d.kind = "img" /\ d.ok
              THEN \E len \in EncodedLens :
                     ico' = add(EncodePNG(d.id, d.w, d.h, len), d.w, d.h)
              ELSE ico' = [ico EXCEPT !.pc = "error"]
     ELSE ico' = [ico EXCEPT !.pc = "write",
                             !.id = [Type |-> 1, Count |-> Len(ico.iconSet) % 65536]]
  /\ UNCHANGED <<brl, bmp, pe>>

\* ---- what is written to w ----
HdrSeg(id) == [kind |-> "hdr", size |-> SizeofICONDIR, val |-> id]
EntrySeg(e) == [kind |-> "entry", size |-> SizeofICONDIRENTRY, val |-> e]
DataSeg(d) == [kind |-> "data", size |-> d.len, val |-> d]
AssetSeg == [kind |-> "asset", size |-> 0, val |-> "default"]

\* lines 553-578
defaultICO == [ico EXCEPT !.out = <<AssetSeg>>, !.pc = "done"]

\* ---- PE2ICO ----

\* lines 606-614: one resource of the scan
PEScan ==
  /\ ico.pc = "scan"
  /\ IF ico.k < Len(ico.resources)
     THEN LET r == At(ico.resources, ico.k) IN
            ico' = [ico EXCEPT
              !.k = @ + 1,
              !.grpIcons = IF HasPrefix(r.Name, RT_GROUP_ICON) THEN Append(@, r) ELSE @,
              !.idmap = IF ~HasPrefix(r.Name, RT_GROUP_ICON) /\ HasPrefix(r.Name, RT_ICON)
                        THEN ((ParseUint(At(Split(r.Name), 1)) % 65536) :> r) @@ @
                        ELSE @]
     ELSE ico' = [ico EXCEPT !.pc = "pick"]
  /\ UNCHANGED <<brl, bmp, pe>>

\* line 622: a Config is given and its Index is not negative
IndexGiven(cfg) == IF Len(cfg) > 0 THEN cfg[1].Index >= 0 ELSE FALSE

\* lines 616-642: the group is chosen and read, entries is allocated
PEPick ==
  /\ ico.pc = "pick"
  /\ IF Len(ico.grpIcons) <= 0 THEN ico' = defaultICO
     ELSE LET index == IF ico.cfg[1].Index >= Len(ico.grpIcons) THEN 0
                       ELSE ico.cfg[1].Index
              gid == IF IndexGiven(ico.cfg) THEN At(ico.grpIcons, index).Data
                     ELSE Group(<<>>)
          IN  IF gid.Count <= 0 THEN ico' = defaultICO
              ELSE ico' = [ico EXCEPT
                     !.cfg = IF IndexGiven(ico.cfg)
                             THEN <<[ico.cfg[1] EXCEPT !.Index = index]>> ELSE @,
                     !.gid = gid,
                     !.entries = [k \in 1..gid.Count |-> ZeroEntry],
                     !.data = <<>>,
                     !.offset = SizeofICONDIR + (gid.Count * SizeofICONDIRENTRY),
                     !.i = 0,
                     !.pc = "members"]
  /\ UNCHANGED <<brl, bmp, pe>>

\* lines 643-653: one member of the group, and the call of writeICO after the last
PEMember ==
  /\ ico.pc = "members"
  /\ IF ico.i < ico.gid.Count
     THEN LET e == At(ico.gid.Entries, ico.i) IN
            IF e.ID \in DOMAIN ico.idmap
            THEN LET r == ico.idmap[e.ID] IN
                   ico' = [ico EXCEPT
                     !.entries[ico.i + 1] = Entry(e.Width, e.Height, e.Planes, e.BitCount,
                                                  e.BytesInRes, ico.offset, e.ID),
                     !.offset = @ + r.Data.len,
                     !.data = Append(@, r.Data),
                     !.i = @ + 1]
            ELSE ico' = [ico EXCEPT !.i = @ + 1]
     ELSE ico' = [ico EXCEPT !.pc = "write",
                             !.id = [Type |-> 1, Count |-> ico.gid.Count]]
  /\ UNCHANGED <<brl, bmp, pe>>

\* ---- writeICO ----

\* line 859
Sized(cfg) == IF Len(cfg) > 0 THEN cfg[1].Width > 0 /\ cfg[1].Height > 0 ELSE FALSE

\* line 899
ContainerFormat(cfg) == IF Len(cfg) <= 0 THEN TRUE ELSE cfg[1].Format # "png"

\* lines 850-855
abs(x) == IF x < 0 THEN -x ELSE x

\* lines 866, 927: the entry's size is read from its payload
SizeInPayload(e) == e.Width <= 0 \/ e.Height <= 0

\* lines 866-871, 927-932: ws, hs
EntrySize(e, d) == IF SizeInPayload(e) THEN DecodeConfig(d) ELSE <<e.Width, e.Height>>

\* a mutation of Closer: a tie moves the choice to the later entry
CloserOrEqual(dw, dh, wdiff, hdiff) == dw <= wdiff /\ dh <= hdiff

\* line 872
Closer(dw, dh, wdiff, hdiff) == dw < wdiff /\ dh < hdiff

\* lines 862-877: one entry of the selection loop
WriteSelect ==
  /\ ico.pc = "write" /\ Sized(ico.cfg) /\ ico.j < Len(ico.entries)
  /\ LET e == At(ico.entries, ico.j) IN
       IF e.BitCount >= ico.bm
       THEN IF SizeInPayload(e) /\ ~IndexOK(ico.data, ico.j)
            THEN ico' = [ico EXCEPT !.pc = "panic"]
            ELSE LET sz == EntrySize(e, IF SizeInPayload(e) THEN At(ico.data, ico.j) ELSE e)
                     dw == abs(sz[1] - ico.cfg[1].Width)
                     dh == abs(sz[2] - ico.cfg[1].Height)
                 IN  IF Closer(dw, dh, ico.wdiff, ico.hdiff)
                     THEN ico' = [ico EXCEPT !.bm = e.BitCount, !.wdiff = dw, !.hdiff = dh,
                                             !.m = ico.j, !.j = @ + 1]
                     ELSE ico' = [ico EXCEPT !.bm = e.BitCount, !.j = @ + 1]
       ELSE ico' = [ico EXCEPT !.j = @ + 1]
  /\ UNCHANGED <<brl, bmp, pe>>

\* lines 237-277: IMG2ICO of an image that decodes, with a Config that sets a size
IMG2ICO(cfg, png) ==
  IF ContainerFormat(cfg)
  THEN << HdrSeg([Type |-> 1, Count |-> 1]),
          EntrySeg(Entry(png.w, png.h, 1, 32, png.len, 22, png.id)),
          DataSeg(png) >>
  ELSE << DataSeg(png) >>

\* lines 879-895: the selected entry is converted and written
WriteSized ==
  /\ ico.pc = "write" /\ Sized(ico.cfg) /\ ~(ico.j < Len(ico.entries))
  /\ IF ~IndexOK(ico.data, ico.m) THEN ico' = [ico EXCEPT !.pc = "panic"]
     ELSE LET d == At(ico.data, ico.m) IN
       IF isPNG(d)
       THEN IF d.ok
            THEN \E len \in EncodedLens :
                   ico' = [ico EXCEPT !.pc = "done", !.out =
                     IMG2ICO(ico.cfg, EncodePNG(d.id, ico.cfg[1].Width, ico.cfg[1].Height, len))]
            ELSE ico' = [ico EXCEPT !.pc = "error"]
       ELSE IF d.len < ignoreSize THEN ico' = [ico EXCEPT !.pc = "error"]
       ELSE \E len \in EncodedLens :
              ico' = [ico EXCEPT !.pc = "done", !.depthArg = ico.bm, !.out =
                IMG2ICO(ico.cfg, EncodePNG(d.id, ico.cfg[1].Width, ico.cfg[1].Height, len))]
  /\ UNCHANGED <<brl, bmp, pe>>

\* lines 899-919: the header, the directory records, the payloads
WriteContainer ==
  /\ ico.pc = "write" /\ ~Sized(ico.cfg) /\ ContainerFormat(ico.cfg)
  /\ ico' = [ico EXCEPT !.pc = "done", !.out =
       <<HdrSeg(ico.id)>>
       \o [k \in 1..Len(ico.entries) |-> EntrySeg(ico.entries[k])]
       \o [k \in 1..Len(ico.data) |-> DataSeg(ico.data[k])]]
  /\ UNCHANGED <<brl, bmp, pe>>

\* lines 922-938: m after the entries from j on; panic when data[i] is out of range
RECURSIVE Largest(_, _, _, _, _, _, _)
Largest(entries, data, j, m, wm, hm, bm) ==
  IF ~(j < Len(entries)) THEN [m |-> m, panic |-> FALSE]
  ELSE LET e == At(entries, j) IN
    IF e.BitCount >= bm
    THEN IF SizeInPayload(e) /\ ~IndexOK(data, j) THEN [m |-> m, panic |-> TRUE]
         ELSE LET sz == EntrySize(e, IF SizeInPayload(e) THEN At(data, j) ELSE e) IN
                IF sz[1] > wm /\ sz[2] > hm
                THEN Largest(entries, data, j + 1, j, sz[1], sz[2], e.BitCount)
                ELSE Largest(entries, data, j + 1, m, wm, hm, e.BitCount)
    ELSE Largest(entries, data, j + 1, m, wm, hm, bm)

\* lines 921-941: the largest image of the highest depth is written as it is
WriteLargest ==
  /\ ico.pc = "write" /\ ~Sized(ico.cfg) /\ ~ContainerFormat(ico.cfg)
  /\ LET sel == Largest(ico.entries, ico.data, 0, 0, 0, 0, 0) IN
       IF sel.panic \/ ~IndexOK(ico.data, sel.m) THEN ico' = [ico EXCEPT !.pc = "panic"]
       ELSE ico' = [ico EXCEPT !.pc = "done", !.m = sel.m,
                               !.out = <<DataSeg(At(ico.data, sel.m))>>]
  /\ UNCHANGED <<brl, bmp, pe>>

NextICO ==
  \/ IcnsFilter \/ IcnsConvert
  \/ PEScan \/ PEPick \/ PEMember
  \/ WriteSelect \/ WriteSized \/ WriteContainer \/ WriteLargest

SpecICO == InitICO /\ [][NextICO]_vars

\* a container was written by writeICO in container mode
ContainerWritten ==
  /\ ico.pc = "done" /\ ~Sized(ico.cfg) /\ ContainerFormat(ico.cfg)
  /\ Len(ico.out) > 0 /\ ico.out[1].kind = "hdr"

\* the directory records and the payloads of the output, in the order written
OutRecords == SelectSeq(ico.out, LAMBDA seg : seg.kind = "entry")
OutPayloads == SelectSeq(ico.out, LAMBDA seg : seg.kind = "data")

\* the byte position in the output at which segment n begins
RECURSIVE SegStart(_, _)
SegStart(out, n) == IF n <= 1 THEN 0 ELSE SegStart(out, n - 1) + out[n - 1].size

\* the place in the output of the k-th payload written
PayloadSeg(out, k) ==
  CHOOSE n \in 1..Len(out) :
    /\ out[n].kind = "data"
    /\ Cardinality({j \in 1..n : out[j].kind = "data"}) = k

RECURSIVE SumBytesInRes(_, _)
SumBytesInRes(recs, k) ==
  IF k <= 0 THEN 0 ELSE SumBytesInRes(recs, k - 1) + recs[k].val.BytesInRes

\* C1: in a container written in container mode, every directory record k of
\* the n written has offset 6 + 16*n + the byteLengths of the records before
\* it, payload k begins at that byte of the output, the record's byteLength is
\* the length of payload k, and the offsets strictly increase.
C1_OffsetsAreCumulative ==
  ContainerWritten =>
    LET recs == OutRecords
        pays == OutPayloads
        n == Len(recs)
    IN  \A k \in 1..n :
          /\ recs[k].val.Offset = 6 + (16 * n) + SumBytesInRes(recs, k - 1)
          /\ k <= Len(pays)
          /\ recs[k].val.Offset = SegStart(ico.out, PayloadSeg(ico.out, k))
          /\ recs[k].val.BytesInRes = pays[k].size
          /\ k > 1 => recs[k - 1].val.Offset < recs[k].val.Offset

\* C2: in a container written in container mode, the header's count is the
\* number of directory records written and the number of payloads written,
\* and the i-th payload is the image the i-th record was made for.
C2_CountRecordsPayloadsAligned ==
  ContainerWritten =>
    LET recs == OutRecords
        pays == OutPayloads
    IN  /\ ico.out[1].val.Count = Len(recs)
        /\ ico.out[1].val.Count = Len(pays)
        /\ \A k \in 1..Len(recs) : recs[k].val.ID = pays[k].val.id

\* writeICO was given a target size and its selection loop has visited every entry
SelectionDone ==
  /\ ico.pc \in {"write", "done", "error", "panic"}
  /\ Sized(ico.cfg)
  /\ Len(ico.entries) > 0
  /\ ico.j = Len(ico.entries)

\* the true size of the k-th entry (k from 1): its stored width and height, or
\* the size in its payload's header when one of them is stored as 0
TrueSize(k) ==
  IF ~SizeInPayload(ico.entries[k]) THEN <<ico.entries[k].Width, ico.entries[k].Height>>
  ELSE IF k <= Len(ico.data) THEN DecodeConfig(ico.data[k])
  ELSE <<0, 0>>

Target == <<ico.cfg[1].Width, ico.cfg[1].Height>>

\* entry e has exactly the target size and no other entry has a higher bit depth
ExactAndDeepest(e) ==
  /\ TrueSize(e) = Target
  /\ \A o \in 1..Len(ico.entries) : ico.entries[o].BitCount <= ico.entries[e].BitCount

\* C3 as stated: with a target size, an entry of exactly the target size that
\* no other entry exceeds in bit depth is the entry selected, whatever the
\* order and the sizes of the other entries.
\* (Read so that, of several such entries, any one may be the selected one.)
C3_ExactMatchSelected ==
  SelectionDone =>
    ((\E e \in 1..Len(ico.entries) : ExactAndDeepest(e)) => ExactAndDeepest(ico.m + 1))

\* no entry before e has the target's width or the target's height
NoEarlierHalfMatch(e) ==
  \A p \in 1..(e - 1) : TrueSize(p)[1] # Target[1] /\ TrueSize(p)[2] # Target[2]

\* C3 as amended: such an entry is the entry selected when no entry before it
\* has the target's width or the target's height; and the selection loop
\* reaches its end whenever every entry has a payload at its index.
C3_ExactMatchSelectedIfNoEarlierHalfMatch ==
  /\ SelectionDone =>
       \A e \in 1..Len(ico.entries) :
         (ExactAndDeepest(e) /\ NoEarlierHalfMatch(e)) => ico.m = e - 1
  /\ (Sized(ico.cfg) /\ Len(ico.data) = Len(ico.entries) /\ ico.pc = "panic") =>
       ico.j = Len(ico.entries)

\* C3 witness: the second entry has exactly the target size, the first has
\* neither its width nor its height, and the second is the entry selected.
C3_Witness ==
  /\ SelectionDone
  /\ Len(ico.entries) >= 2
  /\ ExactAndDeepest(2) /\ NoEarlierHalfMatch(2)
  /\ ico.entries[1].BitCount = ico.entries[2].BitCount
  /\ ico.m = 1

(***************************************************************************)
(* parseDir, and PE2ICO up to the scan of what parseDir returned           *)
(***************************************************************************)
\* most child records of the root directory tried
MaxRootChildren == 2

\* most child records of a type directory tried
MaxTypeChildren == 2

\* binary.LittleEndian.Uint32 of four bytes, as bit 31 and the low 31 bits
HighBit(b4) == At(b4, 3) >= 128
Low31(b4) ==
  At(b4, 0) + (256 * At(b4, 1)) + (65536 * At(b4, 2)) + (16777216 * (At(b4, 3) % 128))

\* lines 481-488: the 16-bit code units of c
RECURSIVE CodeUnits(_)
CodeUnits(c) ==
  IF Len(c) < 2 THEN <<>>
  ELSE <<Uint16(Slice(c, 0, 2))>> \o CodeUnits(Slice(c, 2, Len(c)))

\* string(utf16.Decode(r)), as the string's code points
RECURSIVE Utf16Decode(_)
Utf16Decode(r) ==
  IF r = <<>> THEN <<>>
  ELSE IF r[1] < 55296 \/ r[1] >= 57344 THEN <<r[1]>> \o Utf16Decode(SubSeq(r, 2, Len(r)))
  ELSE IF r[1] < 56320 /\ Len(r) >= 2 /\ r[2] >= 56320 /\ r[2] < 57344
       THEN <<65536 + ((r[1] - 55296) * 1024) + (r[2] - 56320)>>
            \o Utf16Decode(SubSeq(r, 3, Len(r)))
  ELSE <<65533>> \o Utf16Decode(SubSeq(r, 2, Len(r)))

\* line 474: the i-th child record of the directory at p
ChildRecordFirst(p, i) == p + 16
ChildRecord(p, i) == (8 * i) + p + 16

\* line 511: the file offset of data at a virtual address
FileOffsetNoVirtual(rva, virtual) == rva
FileOffset(rva, virtual) == rva - virtual

\* ---- the resource sections tried ----
\* A section is built from a tree: the root directory, the directory A, the
\* fixed directories B and L, five data entries D0..D4, one name string and
\* ten payload bytes.

\* a child record: named or with an ID, to a directory or to a data entry
Child(named, id, dir, to) == [named |-> named, id |-> id, dir |-> dir, to |-> to]

RootChoices ==
  { Child(FALSE, 5, FALSE, "D0"), Child(FALSE, 3, TRUE, "A"), Child(FALSE, 14, TRUE, "B"),
    Child(TRUE, 0, TRUE, "A"), Child(FALSE, 5, TRUE, "B") }

TypeChoices ==
  { Child(FALSE, 1, FALSE, "D1"), Child(TRUE, 0, FALSE, "D2"), Child(FALSE, 1, TRUE, "L") }

KidsB == <<Child(FALSE, 1, FALSE, "D4")>>
KidsL == <<Child(FALSE, 1033, FALSE, "D3")>>

\* the name string: "3" or "14"
NameStrings == {<<51>>, <<49, 52>>}

\* rsrc.SectionHeader.VirtualAddress
Virtuals == {0, 4096}

\* one field of the section may point outside it
Corruptions ==
  {"none", "dir", "dirB", "name", "namelen", "entry", "rangeHigh", "rangeLow"}

Trees ==
  { t \in [root : UNION {[1..n -> RootChoices] : n \in 0..MaxRootChildren},
           A : UNION {[1..n -> TypeChoices] : n \in 0..MaxTypeChildren},
           name : NameStrings, virtual : Virtuals, corrupt : Corruptions] :
      /\ ~(t.corrupt = "rangeLow" /\ t.virtual = 0)
      /\ (t.corrupt = "none" \/ t.name = <<51>>) }

Kids(t, d) == CASE d = "A" -> t.A [] d = "B" -> KidsB [] d = "L" -> KidsL

EntryNo(to) ==
  CASE to = "D0" -> 0 [] to = "D1" -> 1 [] to = "D2" -> 2 [] to = "D3" -> 3 [] to = "D4" -> 4

\* where the parts lie
AddrA == 16 + (8 * MaxRootChildren)
AddrB == AddrA + 16 + (8 * MaxTypeChildren)
AddrL == AddrB + 24
AddrEntry(k) == AddrL + 24 + (8 * k)
AddrName == AddrEntry(5)
AddrPayload == AddrName + 6
BufLen == AddrPayload + 10

DirAddr(d) == CASE d = "A" -> AddrA [] d = "B" -> AddrB [] d = "L" -> AddrL

\* the payload of data entry k within the payload bytes
PayOff(k) == 2 * k
PaySize(k) == IF k = 2 THEN 1 ELSE 2

\* the fields as written, with the corruption applied
DirPtr(t, d) ==
  IF (t.corrupt = "dir" /\ d = "A") \/ (t.corrupt = "dirB" /\ d = "B")
  THEN BufLen - 8 ELSE DirAddr(d)
NamePtr(t) == IF t.corrupt = "name" THEN BufLen - 1 ELSE AddrName
NameLen(t) == IF t.corrupt = "namelen" THEN 200 ELSE Len(t.name)
EntryPtr(t, k) == IF t.corrupt = "entry" /\ k = 1 THEN BufLen - 4 ELSE AddrEntry(k)
Rva(t, k) ==
  IF t.corrupt = "rangeLow" /\ k = 1 THEN AddrPayload + PayOff(k)
  ELSE t.virtual + AddrPayload + PayOff(k)
Size(t, k) == IF t.corrupt = "rangeHigh" /\ k = 1 THEN 250 ELSE PaySize(k)

LE16(v) == <<v % 256, v \div 256>>
LE32(v) == <<v % 256, (v \div 256) % 256, (v \div 65536) % 256, v \div 16777216>>
LE32High(v) == [LE32(v) EXCEPT ![4] = @ + 128]

RECURSIVE Concat(_)
Concat(ss) == IF ss = <<>> THEN <<>> ELSE Head(ss) \o Concat(SubSeq(ss, 2, Len(ss)))

\* an 8-byte child record: the name field, then the offset field
RecordBytes(t, c) ==
  (IF c.named THEN LE32High(NamePtr(t)) ELSE LE32(c.id))
  \o (IF c.dir THEN LE32High(DirPtr(t, c.to)) ELSE LE32(EntryPtr(t, EntryNo(c.to))))

\* an IMAGE_RESOURCE_DIRECTORY with room for slots child records
DirBytes(t, kids, slots) ==
  Repeat(0, 12)
  \o LE16(Cardinality({k \in 1..Len(kids) : kids[k].named}))
  \o LE16(Cardinality({k \in 1..Len(kids) : ~kids[k].named}))
  \o Concat([k \in 1..Len(kids) |-> RecordBytes(t, kids[k])])
  \o Repeat(0, 8 * (slots - Len(kids)))

\* the first 8 bytes of an IMAGE_RESOURCE_DATA_ENTRY
EntryBytes(t, k) == LE32(Rva(t, k)) \o LE32(Size(t, k))

\* a length-prefixed UTF-16 string in a 6-byte slot
NameBytes(t) ==
  LE16(NameLen(t)) \o Concat([k \in 1..Len(t.name) |-> LE16(t.name[k])])
  \o Repeat(0, 4 - (2 * Len(t.name)))

Buffer(t) ==
  DirBytes(t, t.root, MaxRootChildren) \o DirBytes(t, t.A, MaxTypeChildren)
  \o DirBytes(t, KidsB, 1) \o DirBytes(t, KidsL, 1)
  \o Concat([k \in 1..5 |-> EntryBytes(t, k - 1)])
  \o NameBytes(t) \o [i \in 1..10 |-> 199 + i]

\* ---- the walk ----
\* a call of parseDir(b, p, prefix, virtual)
Frame(p, prefix) ==
  [p |-> p, prefix |-> prefix, entered |-> FALSE, n |-> 0, i |-> 0, resources |-> <<>>]

PEStart(t, rsrc) ==
  [pc |-> "open", t |-> t, rsrc |-> rsrc, b |-> Buffer(t), virtual |-> t.virtual,
   stack |-> <<>>, ret |-> <<>>, out |-> <<>>]

InitPE ==
  /\ pe \in {PEStart(t, TRUE) : t \in Trees}
            \cup {PEStart(t, FALSE) : t \in {u \in Trees : u.root = <<>> /\ u.A = <<>>
                                               /\ u.corrupt = "none"}}
  /\ brl = Idle /\ bmp = Idle /\ ico = Idle

Top == pe.stack[Len(pe.stack)]

\* a runtime panic unwinds every call: nothing is returned
PDPanic == [pe EXCEPT !.pc = "panic"]

\* return l to the caller: lines 501-503, or line 603
PDReturnTo(l) ==
  IF Len(pe.stack) = 1
  THEN [pe EXCEPT !.stack = <<>>, !.ret = l, !.pc = "returned"]
  ELSE [pe EXCEPT !.stack =
          [SubSeq(pe.stack, 1, Len(pe.stack) - 1) EXCEPT
             ![Len(pe.stack) - 1] = [@ EXCEPT !.resources = @ \o l, !.i = @ + 1]]]

\* lines 585-603
PEOpen ==
  /\ pe.pc = "open"
  /\ pe' = IF ~pe.rsrc
           THEN [pe EXCEPT !.out = <<AssetSeg>>, !.pc = "default"]
           ELSE [pe EXCEPT !.stack = <<Frame(0, <<>>)>>, !.pc = "walk"]
  /\ UNCHANGED <<brl, bmp, ico>>

\* lines 459-468
PDEnter ==
  /\ pe.pc = "walk"
  /\ ~Top.entered
  /\ pe' = IF Top.prefix # <<>> /\ ~HasPrefix(Top.prefix, RT_GROUP_ICON)
              /\ ~HasPrefix(Top.prefix, RT_ICON)
           THEN PDReturnTo(<<>>)
           ELSE IF SliceOK(pe.b, Top.p + 12, Top.p + 14) /\ SliceOK(pe.b, Top.p + 14, Top.p + 16)
           THEN [pe EXCEPT !.stack[Len(pe.stack)] =
                   [@ EXCEPT !.entered = TRUE,
                             !.n = Uint16(Slice(pe.b, Top.p + 12, Top.p + 14))
                                   + Uint16(Slice(pe.b, Top.p + 14, Top.p + 16))]]
           ELSE PDPanic
  /\ UNCHANGED <<brl, bmp, ico>>

\* lines 478-480: the reads of a named entry's string stay inside b
NameOK(b, nameF) ==
  IF ~HighBit(nameF) THEN TRUE
  ELSE IF ~SliceOK(b, Low31(nameF), Low31(nameF) + 2) THEN FALSE
  ELSE SliceOK(b, Low31(nameF) + 2,
               Low31(nameF) + 2 + (Uint16(Slice(b, Low31(nameF), Low31(nameF) + 2)) * 2))

\* lines 477-493: the path segment of an entry
Segment(b, nameF) ==
  IF HighBit(nameF)
  THEN Utf16Decode(CodeUnits(
         Slice(b, Low31(nameF) + 2,
               Low31(nameF) + 2 + (Uint16(Slice(b, Low31(nameF), Low31(nameF) + 2)) * 2))))
  ELSE Itoa(Low31(nameF))

\* lines 506-512: the data entry's two fields are read and its range lies in b
\* (an address of 2^31 or more is beyond every section tried)
LeafOK(b, od, virtual) ==
  IF ~(SliceOK(b, od, od + 4) /\ SliceOK(b, od + 4, od + 8)) THEN FALSE
  ELSE IF HighBit(Slice(b, od, od + 4)) \/ HighBit(Slice(b, od + 4, od + 8)) THEN FALSE
  ELSE SliceOK(b, FileOffset(Low31(Slice(b, od, od + 4)), virtual),
               FileOffset(Low31(Slice(b, od, od + 4)), virtual)
               + Low31(Slice(b, od + 4, od + 8)))

\* lines 506-512
LeafData(b, od, virtual) ==
  Slice(b, FileOffset(Low31(Slice(b, od, od + 4)), virtual),
        FileOffset(Low31(Slice(b, od, od + 4)), virtual) + Low31(Slice(b, od + 4, od + 8)))

\* lines 473-515: one iteration of the loop over the child records
PDEntry ==
  /\ pe.pc = "walk"
  /\ Top.entered
  /\ Top.i < Top.n
  /\ LET o == ChildRecord(Top.p, Top.i) IN
       pe' =
         IF ~(SliceOK(pe.b, o, o + 4) /\ SliceOK(pe.b, o + 4, o + 8)) THEN PDPanic
         ELSE LET nameF == Slice(pe.b, o, o + 4)
                  ptrF == Slice(pe.b, o + 4, o + 8)
              IN  IF ~NameOK(pe.b, nameF) THEN PDPanic
                  ELSE LET path == Top.prefix \o Segment(pe.b, nameF) IN
                    IF HighBit(ptrF)
                    THEN [pe EXCEPT !.stack = Append(@, Frame(Low31(ptrF), path \o <<47>>))]
                    ELSE IF ~LeafOK(pe.b, Low31(ptrF), pe.virtual) THEN PDPanic
                    ELSE [pe EXCEPT !.stack[Len(pe.stack)] =
                            [@ EXCEPT
                               !.resources =
                                 Append(@, [Name |-> path,
                                            Data |-> LeafData(pe.b, Low31(ptrF), pe.virtual)]),
                               !.i = @ + 1]]
  /\ UNCHANGED <<brl, bmp, ico>>

\* line 516
PDReturn ==
  /\ pe.pc = "walk"
  /\ Top.entered
  /\ Top.i >= Top.n
  /\ pe' = PDReturnTo(Top.resources)
  /\ UNCHANGED <<brl, bmp, ico>>

\* lines 604-619: with no icon group among the resources the default icon is
\* written; otherwise PE2ICO goes on to pick a group
PEAfterWalk ==
  /\ pe.pc = "returned"
  /\ pe' = IF \A k \in 1..Len(pe.ret) : ~HasPrefix(pe.ret[k].Name, RT_GROUP_ICON)
           THEN [pe EXCEPT !.out = <<AssetSeg>>, !.pc = "default"]
           ELSE [pe EXCEPT !.pc = "pick"]
  /\ UNCHANGED <<brl, bmp, ico>>

NextPE == PEOpen \/ PDEnter \/ PDEntry \/ PDReturn \/ PEAfterWalk

SpecPE == InitPE /\ [][NextPE]_vars

\* parseDir has returned its list to PE2ICO
Returned == pe.pc \in {"returned", "default", "pick"} /\ pe.rsrc

IconPath(name) == HasPrefix(name, RT_ICON) \/ HasPrefix(name, RT_GROUP_ICON)

\* C5: every entry parseDir returns has a path that starts with "3/" or
\* "14/"; no entry of another type is returned, a leaf data entry of the
\* root directory included.
C5_OnlyIconTypesReturned ==
  Returned => \A k \in 1..Len(pe.ret) : IconPath(pe.ret[k].Name)

\* ---- the entries a well-formed tree holds under its type-3 and type-14
\* subtrees, read off the tree ----
RefSegment(t, c) == IF c.named THEN t.name ELSE Itoa(c.id)

RefPayload(t, b, k) ==
  Slice(b, Rva(t, k) - t.virtual, (Rva(t, k) - t.virtual) + Size(t, k))

RECURSIVE RefWalk(_, _, _, _)
RefWalk(t, b, kids, prefix) ==
  IF kids = <<>> THEN <<>>
  ELSE LET c == Head(kids)
           path == prefix \o RefSegment(t, c)
       IN  (IF c.dir THEN RefWalk(t, b, Kids(t, c.to), path \o <<47>>)
            ELSE <<[Name |-> path, Data |-> RefPayload(t, b, EntryNo(c.to))]>>)
           \o RefWalk(t, b, SubSeq(kids, 2, Len(kids)), prefix)

IconType(t, c) == c.dir /\ RefSegment(t, c) \in {<<51>>, <<49, 52>>}

RefIconEntries(t, b) ==
  Concat([k \in 1..Len(t.root) |->
            IF IconType(t, t.root[k])
            THEN RefWalk(t, b, Kids(t, t.root[k].to), RefSegment(t, t.root[k]) \o <<47>>)
            ELSE <<>>])

IconEntries(ret) == SelectSeq(ret, LAMBDA r : IconPath(r.Name))

\* C6: on a well-formed tree parseDir returns, and the entries it returns
\* under "3/" and "14/" are one per leaf data entry of those subtrees, in
\* depth-first order of the child records, each with its slash-joined path
\* and with the bytes b[rva - virtual .. rva - virtual + size) as payload.
C6_WalkIsDepthFirstReference ==
  (pe.rsrc /\ pe.t.corrupt = "none") =>
    /\ pe.pc # "panic"
    /\ Returned => IconEntries(pe.ret) = RefIconEntries(pe.t, pe.b)

\* C6 witness: a walk of a section at a nonzero virtual address has returned
\* three icon entries or more, through a named record and a language
\* directory of the type directory.
C6_Witness ==
  /\ Returned
  /\ pe.t.corrupt = "none"
  /\ pe.virtual > 0
  /\ Len(IconEntries(pe.ret)) >= 3
  /\ \E k \in 1..Len(pe.t.A) : pe.t.A[k].named
  /\ \E k \in 1..Len(pe.t.A) : pe.t.A[k].dir
  /\ \E k \in 1..Len(pe.ret) : Len(pe.ret[k].Data) = 1

\* ---- a field that lies outside the section is met by the walk ----
WalkedA(t) == \E k \in 1..Len(t.root) : t.root[k].to = "A" /\ IconType(t, t.root[k])
WalkedB(t) == \E k \in 1..Len(t.root) : t.root[k].to = "B" /\ IconType(t, t.root[k])

BadFieldWalked(t) ==
  CASE t.corrupt = "none" -> FALSE
    [] t.corrupt = "dir" -> WalkedA(t)
    [] t.corrupt = "dirB" -> WalkedB(t)
    [] t.corrupt \in {"name", "namelen"} ->
         WalkedA(t) /\ \E k \in 1..Len(t.A) : t.A[k].named
    [] t.corrupt \in {"entry", "rangeHigh", "rangeLow"} ->
         WalkedA(t) /\ \E k \in 1..Len(t.A) : t.A[k].to = "D1"

\* C7: when a directory offset, a name offset, a data-entry offset or a data
\* range met in a type-3 or type-14 subtree lies outside the buffer, the walk
\* never returns a list, not even of the entries found before, and PE2ICO
\* writes nothing.
C7_OutOfRangeFieldEndsWalk ==
  (pe.rsrc /\ BadFieldWalked(pe.t)) =>
    /\ pe.pc \in {"open", "walk", "panic"}
    /\ pe.ret = <<>>
    /\ pe.out = <<>>

\* C7 witness: the walk has ended in a panic on such a field, inside a type-3
\* or type-14 directory, after it had found an entry.
C7_Witness ==
  /\ pe.pc = "panic"
  /\ BadFieldWalked(pe.t)
  /\ Len(pe.stack) >= 2
  /\ IconPath(Top.prefix)
  /\ \E k \in 1..Len(pe.stack) : pe.stack[k].resources # <<>>
  /\ pe.ret = <<>> /\ pe.out = <<>>

(***************************************************************************)
(* ICNS2ICO: legacy RGB chunks and their masks                             *)
(***************************************************************************)
\* line 362: the tags of the legacy 24-bit RGB chunks
RGBTypes == {"is32", "il32", "ih32", "it32", "icp4", "icp5"}

\* the k-th retained chunk (k from 1) is a legacy RGB chunk that is not a PNG
IsRGBChunk(k) ==
  ico.newSet[k].Type \in RGBTypes /\ Stripped(ico.newSet[k]).kind = "raw"

\* its decompressed colour planes, and whether a mask is filed under its place
ColourPlanes(k) == icnsBRLDecode(Stripped(ico.newSet[k]).bytes)
Masked(k) == (k - 1) \in DOMAIN ico.maskMap
MaskBytes(k) == ico.maskMap[k - 1].Data.bytes

\* the pixel count C11 states: a quarter of mask and planes together, or a
\* third of the planes
StatedPixelCount(k) ==
  IF Masked(k) THEN (Len(MaskBytes(k)) + Len(ColourPlanes(k))) \div 4
  ELSE Len(ColourPlanes(k)) \div 3

\* the image C11 states for the k-th retained chunk
StatedImageBuilt(k) ==
  LET cnt == StatedPixelCount(k)
      n == ISqrt(cnt)
      planes == ColourPlanes(k)
  IN  /\ ico.rgba[k].w = n
      /\ ico.rgba[k].h = n
      /\ Len(ico.rgba[k].pix) = n * n
      /\ \A p \in 0..((n * n) - 1) :
           ico.rgba[k].pix[p + 1] =
             [R |-> At(planes, p), G |-> At(planes, cnt + p), B |-> At(planes, (2 * cnt) + p),
              A |-> IF Masked(k) THEN At(MaskBytes(k), p) ELSE 255]

\* C11: a legacy RGB chunk becomes an n x n image, n the integer square root
\* of the pixel count (plane bytes / 4 with a mask, / 3 without); pixel p has
\* the mask byte at p (or 255) as alpha and the bytes at p of the three
\* consecutive colour planes as R, G, B.
C11_RGBChunkDecodesByPlanes ==
  ico.caller = "icns" =>
    \A k \in 1..Len(ico.rgba) : IsRGBChunk(k) => StatedImageBuilt(k)

\* the tags of the 8-bit masks, and of the chunks that are not images
MaskTypes == {"s8mk", "l8mk", "h8mk", "t8mk"}
NonImageTypes == {"TOC ", "icnV", "name", "info", "sbtp", "slct", "FDD92FA8"}

\* the q-th chunk of the icon set (q from 1) is a mask / is retained as an image
IsMask(q) == ico.iconSet[q].Type \in MaskTypes
IsRetained(q) == ico.iconSet[q].Type \notin (MaskTypes \cup NonImageTypes)

\* the number of image chunks retained before the q-th chunk, minus one
PrecedingImage(q) == Cardinality({r \in 1..(q - 1) : IsRetained(r)}) - 1

\* the alpha bytes of the image built for the k-th retained chunk
AlphaPlane(k) == [p \in 1..Len(ico.rgba[k].pix) |-> ico.rgba[k].pix[p].A]

\* the q-th chunk, a mask, is the one filed under the image before it
MaskFiled(q) ==
  ico.pc # "filter" =>
    /\ PrecedingImage(q) \in DOMAIN ico.maskMap
    /\ ico.maskMap[PrecedingImage(q)] = ico.iconSet[q]

\* the bytes of the q-th chunk, a mask, are the alpha plane of the entry of the
\* image before it, when that image is a legacy RGB chunk
MaskIsAlpha(q) ==
  LET key == PrecedingImage(q) IN
    (key >= 0 /\ key < Len(ico.rgba) /\ IsRGBChunk(key + 1)) =>
      AlphaPlane(key + 1) = ico.iconSet[q].Data.bytes

\* no mask chunk is among the retained chunks, the entries or the payloads
NoMaskIsAnEntry ==
  /\ \A k \in 1..Len(ico.newSet) : ico.newSet[k].Type \notin MaskTypes
  /\ Len(ico.entries) <= Len(ico.newSet)
  /\ ico.pc \in {"write", "done"} =>
       Len(ico.entries) = Cardinality({q \in 1..Len(ico.iconSet) : IsRetained(q)})

\* C12 as stated: mask chunks never become entries; each mask chunk is
\* associated with the retained image chunk just before it (dropped chunks in
\* between do not matter), and its bytes are the alpha plane of that image's
\* entry when the image is a legacy RGB chunk.
C12_EachMaskServesPrecedingImage ==
  ico.caller = "icns" =>
    /\ NoMaskIsAnEntry
    /\ \A q \in 1..Len(ico.iconSet) : IsMask(q) => MaskIsAlpha(q)

\* no other mask chunk comes after the q-th chunk before the next retained image
LastMaskOfItsImage(q) ==
  \A r \in (q + 1)..Len(ico.iconSet) :
    IsMask(r) => PrecedingImage(r) # PrecedingImage(q)

\* C12 as amended: the same, for each mask chunk that no other mask chunk
\* follows before the next retained image chunk (a later mask replaces an
\* earlier one filed under the same image); no other association is made.
C12_LastMaskServesPrecedingImage ==
  ico.caller = "icns" =>
    /\ NoMaskIsAnEntry
    /\ \A q \in 1..Len(ico.iconSet) :
         (IsMask(q) /\ LastMaskOfItsImage(q)) => (MaskFiled(q) /\ MaskIsAlpha(q))
    /\ ico.pc # "filter" =>
         DOMAIN ico.maskMap = {PrecedingImage(q) : q \in {r \in 1..Len(ico.iconSet) : IsMask(r)}}

\* C12 witness: a legacy RGB chunk, a dropped chunk and a mask, in this order,
\* have been converted: one entry, whose alpha plane is the mask.
C12_Witness ==
  /\ ico.caller = "icns"
  /\ Len(ico.iconSet) = 3
  /\ IsRetained(1) /\ ico.iconSet[2].Type \in NonImageTypes /\ IsMask(3)
  /\ Len(ico.rgba) = 1 /\ Len(ico.entries) = 1
  /\ IsRGBChunk(1)
  /\ AlphaPlane(1) = ico.iconSet[3].Data.bytes
  /\ ico.pc = "done"

(***************************************************************************)
(* PE2ICO: the icon group used                                             *)
(***************************************************************************)
\* the icon groups among the resources of the file
GroupsOfFile == SelectSeq(ico.resources, LAMBDA r : HasPrefix(r.Name, RT_GROUP_ICON))

\* the file holds an icon group, and every icon group of it has a member
EveryGroupHasMembers ==
  /\ Len(GroupsOfFile) >= 1
  /\ \A g \in 1..Len(GroupsOfFile) : GroupsOfFile[g].Data.Count >= 1

\* C13: for a PE file that holds icon groups with members, PE2ICO does not
\* write the default artwork, whatever the group selection: no Config (group
\* 0), an Index in range or beyond, or a negative Index (all groups).
C13_IconGroupsAreUsed ==
  (ico.caller = "pe" /\ EveryGroupHasMembers) => ico.out # <<AssetSeg>>

(***************************************************************************)
(* writeICO: the bit depth handed to the bitmap decoder                    *)
(***************************************************************************)
\* CreateBmp32bppFromIconResData has been called for the selected entry
DecoderCalled == ico.depthArg # -1

\* C14: with a target size and a selected entry that is a legacy bitmap, the
\* bit depth passed to CreateBmp32bppFromIconResData is the selected entry's
\* own bit depth, also when an entry of higher depth follows that is not
\* selected.
C14_DecoderGetsSelectedDepth ==
  DecoderCalled => ico.depthArg = At(ico.entries, ico.m).BitCount

====
